---- MODULE Spec2Model ----
(***************************************************************************)
(* Legal-document summariser: the structured CLI                           *)
(* (src/src/legal_summariser/cli.py), the legacy CLI                       *)
(* (src/legal_summariser.py) and the legacy detector (src/ldsum/core.py).  *)
(*                                                                         *)
(* A text is a sequence of one-character strings.  Scores of the weighted  *)
(* detector are kept in hundredths (0.6 is 60), the precision to which the *)
(* code rounds the confidence it reports.                                  *)
(***************************************************************************)
EXTENDS Integers, Sequences, FiniteSets, TLC

VARIABLES
    prog,            \* which program runs: "cli" or "legacy"
    pc,              \* position of the run (or of the detector harness)
    offline,         \* args.offline
    allow_non_legal, \* args.allow_non_legal
    input,           \* what the path argument / standard input holds
    env,             \* OPENAI_API_KEY / OPENAI_BASE_URL presence
    text,            \* the document text once read
    det,             \* the detector's result
    prevDet,         \* detector result before a term was inserted (detector harness)
    stdout,          \* payloads printed to standard output, in order
    stderr,          \* diagnostics printed to the error stream, in order
    exitStatus,      \* <<>> while running, <<code>> once the process has exited
    requests,        \* chat-completion requests issued, each with its reply, in order
    calls,           \* detector / summariser functions entered, in order
    ret              \* how each model call ended, and what summarise_online returned

vars == <<prog, pc, offline, allow_non_legal, input, env, text, det, prevDet,
          stdout, stderr, exitStatus, requests, calls, ret>>

-----------------------------------------------------------------------------
(* Characters and text primitives (str.lower, str.strip, str.split, `in`). *)

Lower1(c) ==
    CASE c = "A" -> "a"
      [] c = "B" -> "b"
      [] c = "C" -> "c"
      [] c = "D" -> "d"
      [] c = "E" -> "e"
      [] c = "F" -> "f"
      [] c = "G" -> "g"
      [] c = "H" -> "h"
      [] c = "I" -> "i"
      [] c = "J" -> "j"
      [] c = "K" -> "k"
      [] c = "L" -> "l"
      [] c = "M" -> "m"
      [] c = "N" -> "n"
      [] c = "O" -> "o"
      [] c = "P" -> "p"
      [] c = "Q" -> "q"
      [] c = "R" -> "r"
      [] c = "S" -> "s"
      [] c = "T" -> "t"
      [] c = "U" -> "u"
      [] c = "V" -> "v"
      [] c = "W" -> "w"
      [] c = "X" -> "x"
      [] c = "Y" -> "y"
      [] c = "Z" -> "z"
      [] OTHER -> c

WordChars ==
    {"a", "b", "c", "d", "e", "f", "g", "h", "i", "j", "k", "l", "m", "n", "o", "p", "q",
     "r", "s", "t", "u", "v", "w", "x", "y", "z", "A", "B", "C", "D", "E", "F", "G", "H",
     "I", "J", "K", "L", "M", "N", "O", "P", "Q", "R", "S", "T", "U", "V", "W", "X", "Y",
     "Z", "0", "1", "2", "3", "4", "5", "6", "7", "8", "9", "_"}

Digits == {"0", "1", "2", "3", "4", "5", "6", "7", "8", "9"}

\* Whitespace as str.strip() / str.split() see it (ASCII part).
IsSpace(c) == c \in {" ", "\t", "\n", "\r"}

Lower(s) == [i \in 1..Len(s) |-> Lower1(s[i])]

Rep(c, n) == [i \in 1..n |-> c]

\* pat occurs in s starting at index i
MatchAt(s, i, pat) ==
    /\ i >= 1
    /\ i + Len(pat) - 1 <= Len(s)
    /\ \A j \in 1..Len(pat) : s[i + j - 1] = pat[j]

\* Python's `pat in s`
Contains(s, pat) == \E i \in 1..(Len(s) - Len(pat) + 1) : MatchAt(s, i, pat)

\* str.strip(): drop leading and trailing whitespace only
Strip(s) ==
    LET keep == {i \in 1..Len(s) : ~IsSpace(s[i])}
    IN  IF keep = {} THEN <<>>
        ELSE LET lo == CHOOSE i \in keep : \A j \in keep : i <= j
                 hi == CHOOSE i \in keep : \A j \in keep : i >= j
             IN  SubSeq(s, lo, hi)

\* len(s.split()): number of maximal runs of non-whitespace
WordCount(s) ==
    Cardinality({i \in 1..Len(s) : ~IsSpace(s[i]) /\ (i = 1 \/ IsSpace(s[i - 1]))})

\* number of characters of s that are not whitespace
NonSpaceCount(s) == Cardinality({i \in 1..Len(s) : ~IsSpace(s[i])})

-----------------------------------------------------------------------------
(* Legacy detector, src/ldsum/core.py                                      *)

LEGAL_KEYWORDS ==
    <<
    <<"a", "g", "r", "e", "e", "m", "e", "n", "t">>,
    <<"c", "o", "n", "t", "r", "a", "c", "t">>,
    <<"p", "a", "r", "t", "y">>,
    <<"p", "a", "r", "t", "i", "e", "s">>,
    <<"s", "h", "a", "l", "l">>,
    <<"h", "e", "r", "e", "b", "y">>,
    <<"w", "a", "r", "r", "a", "n", "t", "y">>,
    <<"r", "e", "p", "r", "e", "s", "e", "n", "t", "a", "t", "i", "o", "n", "s">>,
    <<"l", "i", "a", "b", "i", "l", "i", "t", "y">>,
    <<"i", "n", "d", "e", "m", "n", "i", "f", "y">>,
    <<"i", "n", "d", "e", "m", "n", "i", "f", "i", "c", "a", "t", "i", "o", "n">>,
    <<"g", "o", "v", "e", "r", "n", "i", "n", "g", " ", "l", "a", "w">>,
    <<"j", "u", "r", "i", "s", "d", "i", "c", "t", "i", "o", "n">>,
    <<"v", "e", "n", "u", "e">>,
    <<"a", "r", "b", "i", "t", "r", "a", "t", "i", "o", "n">>,
    <<"m", "e", "d", "i", "a", "t", "i", "o", "n">>,
    <<"t", "e", "r", "m">>,
    <<"t", "e", "r", "m", "i", "n", "a", "t", "i", "o", "n">>,
    <<"c", "o", "n", "f", "i", "d", "e", "n", "t", "i", "a", "l", "i", "t", "y">>,
    <<"n", "o", "n", "-", "d", "i", "s", "c", "l", "o", "s", "u", "r", "e">>,
    <<"n", "d", "a">>,
    <<"c", "o", "n", "s", "i", "d", "e", "r", "a", "t", "i", "o", "n">>,
    <<"a", "s", "s", "i", "g", "n", "m", "e", "n", "t">>,
    <<"f", "o", "r", "c", "e", " ", "m", "a", "j", "e", "u", "r", "e">>,
    <<"s", "e", "v", "e", "r", "a", "b", "i", "l", "i", "t", "y">>,
    <<"e", "n", "t", "i", "r", "e", " ", "a", "g", "r", "e", "e", "m", "e", "n", "t">>,
    <<"a", "m", "e", "n", "d", "m", "e", "n", "t">>,
    <<"e", "f", "f", "e", "c", "t", "i", "v", "e", " ", "d", "a", "t", "e">>,
    <<"d", "i", "s", "p", "u", "t", "e", " ", "r", "e", "s", "o", "l", "u", "t", "i", "o", "n">>,
    <<"p", "e", "n", "a", "l", "t", "y">>,
    <<"f", "e", "e", "s">>,
    <<"p", "a", "y", "m", "e", "n", "t">>,
    <<"l", "i", "c", "e", "n", "s", "e">>,
    <<"l", "i", "c", "e", "n", "c", "e">>,
    <<"o", "b", "l", "i", "g", "a", "t", "i", "o", "n">>,
    <<"c", "l", "a", "u", "s", "e">>,
    <<"h", "e", "r", "e", "i", "n">>,
    <<"w", "h", "e", "r", "e", "a", "s">>
    >>

MIN_LEGACY_LENGTH == 50

MIN_KEYWORD_SCORE == 2

\* sum(1 for kw in LEGAL_KEYWORDS if kw in low)
KeywordScore(low) ==
    Cardinality({k \in 1..Len(LEGAL_KEYWORDS) : Contains(low, LEGAL_KEYWORDS[k])})

\* (variant) only the `not text` half of the length guard
is_probably_legal_unguarded(t) ==
    IF t = <<>>
    THEN FALSE
    ELSE KeywordScore(Lower(t)) >= MIN_KEYWORD_SCORE

is_probably_legal(t) ==
    IF t = <<>> \/ Len(Strip(t)) < MIN_LEGACY_LENGTH
    THEN FALSE
    ELSE KeywordScore(Lower(t)) >= MIN_KEYWORD_SCORE

-----------------------------------------------------------------------------
(* Weighted heuristic detector, src/src/legal_summariser/cli.py            *)

LEGAL_HINT_LITERALS ==
    <<
    <<"a", "g", "r", "e", "e", "m", "e", "n", "t">>,
    <<"c", "l", "a", "u", "s", "e">>,
    <<"p", "a", "r", "t", "y">>,
    <<"p", "a", "r", "t", "i", "e", "s">>,
    <<"e", "f", "f", "e", "c", "t", "i", "v", "e", " ", "d", "a", "t", "e">>,
    <<"g", "o", "v", "e", "r", "n", "i", "n", "g", " ", "l", "a", "w">>,
    <<"t", "e", "r", "m", "i", "n", "a", "t", "i", "o", "n">>,
    <<"w", "a", "r", "r", "a", "n", "t", "y">>,
    <<"i", "n", "d", "e", "m", "n", "i", "f">>,
    <<"l", "i", "a", "b", "i", "l", "i", "t", "y">>,
    <<"c", "o", "n", "f", "i", "d", "e", "n", "t", "i", "a", "l">>,
    <<"h", "e", "r", "e", "b", "y">>,
    <<"w", "h", "e", "r", "e", "a", "s">>
    >>

SECTION_PREFIX == <<"s", "e", "c", "t", "i", "o", "n", " ">>

\* LEGAL_HINTS.search(text) with re.I: any literal alternative, or "section \d"
HintSearch(t) ==
    LET low == Lower(t)
    IN  \/ \E k \in 1..Len(LEGAL_HINT_LITERALS) : Contains(low, LEGAL_HINT_LITERALS[k])
        \/ \E i \in 1..Len(low) :
              /\ MatchAt(low, i, SECTION_PREFIX)
              /\ i + Len(SECTION_PREFIX) <= Len(low)
              /\ low[i + Len(SECTION_PREFIX)] \in Digits

\* re.search(r"\bLtd|LLC|PLC|Inc\.\b", text): case-sensitive; \b binds only to
\* the alternative it is written in
CompanySearch(t) ==
    \E i \in 1..Len(t) :
        \/ /\ MatchAt(t, i, <<"L", "t", "d">>)
           /\ (i = 1 \/ t[i - 1] \notin WordChars)
        \/ MatchAt(t, i, <<"L", "L", "C">>)
        \/ MatchAt(t, i, <<"P", "L", "C">>)
        \/ /\ MatchAt(t, i, <<"I", "n", "c", ".">>)
           /\ i + 4 <= Len(t)
           /\ t[i + 4] \in WordChars

HINT_WEIGHT == 60

LENGTH_WEIGHT == 20

COMPANY_WEIGHT == 20

WORD_THRESHOLD == 120

LEGAL_THRESHOLD == 60

SCORE_CAP == 100

Min(a, b) == IF a <= b THEN a ELSE b

\* (variant) the hint weight is 0.06
offline_score_typo(t) ==
    (IF HintSearch(t) THEN 6 ELSE 0)
    + (IF WordCount(t) > WORD_THRESHOLD THEN LENGTH_WEIGHT ELSE 0)
    + (IF CompanySearch(t) THEN COMPANY_WEIGHT ELSE 0)

\* the running total `score` of offline_detect, in hundredths
offline_score(t) ==
    (IF HintSearch(t) THEN HINT_WEIGHT ELSE 0)
    + (IF WordCount(t) > WORD_THRESHOLD THEN LENGTH_WEIGHT ELSE 0)
    + (IF CompanySearch(t) THEN COMPANY_WEIGHT ELSE 0)

offline_detect(t) ==
    LET score == offline_score(t)
        is_legal == score >= LEGAL_THRESHOLD
    IN  [is_legal   |-> is_legal,
         type       |-> IF is_legal THEN "contract" ELSE "other",
         confidence |-> Min(score, SCORE_CAP),
         reason     |-> "heuristic"]

-----------------------------------------------------------------------------
(* Documents the runs read.                                                *)

DocBlank ==
    <<" ", "\t">>

DocHello ==
    <<"h", "e", "l", "l", "o", " ", "w", "o", "r", "l", "d">>

DocShortLegal ==
    <<"T", "h", "i", "s", " ", "A", "g", "r", "e", "e", "m", "e", "n", "t", " ", "b",
       "i", "n", "d", "s", " ", "A", "l", "p", "h", "a", " ", "L", "t", "d">>

DocContract ==
    <<"T", "h", "i", "s", " ", "A", "g", "r", "e", "e", "m", "e", "n", "t", " ", "i",
       "s", " ", "e", "n", "t", "e", "r", "e", "d", " ", "i", "n", "t", "o", " ", "b",
       "e", "t", "w", "e", "e", "n", " ", "t", "h", "e", " ", "p", "a", "r", "t", "i",
       "e", "s", " ", "A", "l", "p", "h", "a", " ", "L", "t", "d", " ", "a", "n", "d",
       " ", "B", "e", "t", "a", " ", "L", "L", "C">>

DocProse ==
    <<"t", "h", "e", " ", "q", "u", "i", "c", "k", " ", "b", "r", "o", "w", "n", " ",
       "f", "o", "x", " ", "j", "u", "m", "p", "s", " ", "o", "v", "e", "r", " ", "a",
       " ", "l", "a", "z", "y", " ", "d", "o", "g", " ", "b", "y", " ", "t", "h", "e",
       " ", "r", "i", "v", "e", "r", " ", "b", "a", "n", "k", " ", "t", "o", "d", "a",
       "y">>

-----------------------------------------------------------------------------
(* JSON as the code uses it.  A parsed value is [kind, items]: an object's  *)
(* items are <<key, token>> pairs in order, an array's items are tokens; a  *)
(* token is the canonical JSON text of a member value.                      *)

Obj(items) == [kind |-> "object", items |-> items]

Arr(items) == [kind |-> "array", items |-> items]

\* stands for json.JSONDecodeError being raised
JsonError == [kind |-> "error", items |-> <<>>]

\* What the model may answer to the classification prompt.
ClassifyTexts ==
    {"{\"is_legal\": true, \"type\": \"contract\"}",
     "{\"is_legal\":false,\"type\":\"memo\"}",
     "{\"is_legal\": \"false\"}",
     "{\"is_legal\": \"\"}",
     "{\"is_legal\": 1}",
     "{\"is_legal\": 0}",
     "{\"is_legal\": null}",
     "{\"type\": \"memo\"}",
     "[true]",
     "Sure! This looks like a contract.",
     ""}

\* What the model may answer to the summarisation prompt.
SummaryTexts ==
    {"{\"title\":\"NDA\",\"parties\":[\"A\",\"B\"]}",
     "{\"title\": \"NDA\"}",
     "[\"NDA\"]",
     "Here is the summary: {\"title\": \"NDA\"}",
     ""}

\* json.loads on the texts above
json_loads(s) ==
    CASE s = "{\"is_legal\": true, \"type\": \"contract\"}" ->
            Obj(<< <<"is_legal", "true">>, <<"type", "\"contract\"">> >>)
      [] s = "{\"is_legal\":false,\"type\":\"memo\"}" ->
            Obj(<< <<"is_legal", "false">>, <<"type", "\"memo\"">> >>)
      [] s = "{\"is_legal\": \"false\"}" -> Obj(<< <<"is_legal", "\"false\"">> >>)
      [] s = "{\"is_legal\": \"\"}" -> Obj(<< <<"is_legal", "\"\"">> >>)
      [] s = "{\"is_legal\": 1}" -> Obj(<< <<"is_legal", "1">> >>)
      [] s = "{\"is_legal\": 0}" -> Obj(<< <<"is_legal", "0">> >>)
      [] s = "{\"is_legal\": null}" -> Obj(<< <<"is_legal", "null">> >>)
      [] s = "{\"type\": \"memo\"}" -> Obj(<< <<"type", "\"memo\"">> >>)
      [] s = "[true]" -> Arr(<<"true">>)
      [] s = "{\"title\":\"NDA\",\"parties\":[\"A\",\"B\"]}" ->
            Obj(<< <<"title", "\"NDA\"">>, <<"parties", "[\"A\", \"B\"]">> >>)
      [] s = "{\"title\": \"NDA\"}" -> Obj(<< <<"title", "\"NDA\"">> >>)
      [] s = "[\"NDA\"]" -> Arr(<<"\"NDA\"">>)
      [] OTHER -> JsonError

RECURSIVE JoinMembers(_)
JoinMembers(items) ==
    IF items = <<>> THEN ""
    ELSE LET m == "\"" \o items[1][1] \o "\": " \o items[1][2]
         IN  IF Len(items) = 1 THEN m ELSE m \o ", " \o JoinMembers(Tail(items))

RECURSIVE JoinTokens(_)
JoinTokens(items) ==
    IF items = <<>> THEN ""
    ELSE IF Len(items) = 1 THEN items[1]
         ELSE items[1] \o ", " \o JoinTokens(Tail(items))

\* json.dumps(v, ensure_ascii=False): default separators ", " and ": "
json_dumps(v) ==
    IF v.kind = "object" THEN "{" \o JoinMembers(v.items) \o "}"
    ELSE "[" \o JoinTokens(v.items) \o "]"

HasKey(v, key) == \E i \in 1..Len(v.items) : v.items[i][1] = key

\* dict.get(key, default) on a parsed object
DictGet(v, key, default) ==
    IF HasKey(v, key)
    THEN v.items[CHOOSE i \in 1..Len(v.items) : v.items[i][1] = key][2]
    ELSE default

\* Python truth value of a parsed member
Truthy(tok) == tok \notin {"false", "null", "0", "\"\"", "[]", "{}"}

DigitText(d) ==
    CASE d = 0 -> "0" [] d = 1 -> "1" [] d = 2 -> "2" [] d = 3 -> "3" [] d = 4 -> "4"
      [] d = 5 -> "5" [] d = 6 -> "6" [] d = 7 -> "7" [] d = 8 -> "8" [] d = 9 -> "9"
      [] OTHER -> "?"

\* repr of the confidence: the int 0 when nothing was added, else a float
\* rounded to two places
ConfidenceText(h) ==
    IF h = 0 THEN "0"
    ELSE DigitText(h \div 100) \o "." \o DigitText((h % 100) \div 10)
         \o (IF h % 10 = 0 THEN "" ELSE DigitText(h % 10))

\* the dict offline_detect returns, as json.dumps sees it
DetectionJson(d) ==
    Obj(<< <<"is_legal", IF d.is_legal THEN "true" ELSE "false">>,
           <<"type", "\"" \o d.type \o "\"">>,
           <<"confidence", ConfidenceText(d.confidence)>>,
           <<"reason", "\"" \o d.reason \o "\"">> >>)

\* json.dumps({"error":"not_legal","detector":det}, ensure_ascii=False)
RejectionEnvelope(detJson) ==
    json_dumps(Obj(<< <<"error", "\"not_legal\"">>,
                      <<"detector", json_dumps(detJson)>> >>))

SUMMARY_KEYS ==
    <<"title", "parties", "purpose", "key_terms", "obligations", "risks",
      "dates_deadlines", "termination", "governing_law", "red_flags">>

StubData ==
    << <<"title", "\"Stub Summary (offline)\"">>,
       <<"parties", "[\"Alpha Ltd\", \"Beta LLC\"]">>,
       <<"purpose", "\"Demonstration-only summary without API.\"">>,
       <<"key_terms", "[\"confidentiality\", \"term\"]">>,
       <<"obligations", "[\"Do not disclose confidential information\"]">>,
       <<"risks", "[\"Stub mode may miss real risks\"]">>,
       <<"dates_deadlines", "[\"N/A\"]">>,
       <<"termination", "\"N/A\"">>,
       <<"governing_law", "\"N/A\"">>,
       <<"red_flags", "[\"This is a stub; run online for real output.\"]">> >>

\* (variant) the stub reports something about the text it was given
summarise_offline_echo(t) ==
    json_dumps(Obj(Append(StubData, <<"words", DigitText(WordCount(t) % 10)>>)))

summarise_offline(t) == json_dumps(Obj(StubData))

-----------------------------------------------------------------------------
(* One run of either program.                                              *)

EXIT_SUCCESS == 0

EXIT_ERROR == 1

EXIT_NO_INPUT == 2

EXIT_REJECTED == 3

LEGACY_EXIT_ERROR == 1

LEGACY_EXIT_NOT_LEGAL == 2

Documents == {<<>>, DocBlank, DocHello, DocShortLegal, DocContract, DocProse}

\* what the path argument names, or what standard input is
Inputs ==
    [kind : {"file", "stdin", "tty"}, content : Documents]
        \cup [kind : {"missing", "dir"}, content : {<<>>}]

Reply(c) == [ok |-> TRUE, content |-> c]

\* client.chat.completions.create raised (transport, credential, unsupported mode)
TransportError == [ok |-> FALSE, content |-> ""]

ClassifyReplies == {TransportError} \cup {Reply(c) : c \in ClassifyTexts}

SummaryReplies == {TransportError} \cup {Reply(c) : c \in SummaryTexts}

LegacyTransportError == [ok |-> FALSE, content |-> <<>>]

LegacyReplies ==
    {LegacyTransportError, Reply(<<"O", "k", ".">>), Reply(<<" ", "O", "k", ".", "\n">>)}

NoDet == [kind |-> "none", items |-> <<>>]

NoResult == [how |-> "none", value |-> ""]

\* the first request of a model call: response_format={"type":"json_object"}
first_request(call) == [call |-> call, json_mode |-> TRUE, extra |-> FALSE]

\* (variant) the except branch re-sends the request with response_format kept
retry_request_constrained(call) == [call |-> call, json_mode |-> TRUE, extra |-> TRUE]

\* the request of the except branch: no response_format, one more system message
retry_request(call) == [call |-> call, json_mode |-> FALSE, extra |-> TRUE]

\* the legacy summarise request: plain, single
legacy_request(call) == [call |-> call, json_mode |-> FALSE, extra |-> FALSE]

Issue(req, reply) ==
    [call |-> req.call, json_mode |-> req.json_mode, extra |-> req.extra, reply |-> reply]

\* the body of a try block raises: the request failed or its content is not JSON
attempt_failed(r) == ~r.ok \/ json_loads(r.content) = JsonError

\* (variant) a second decode failure is swallowed and read as "not legal"
classify_retry_result_defaulting(r) ==
    IF attempt_failed(r)
    THEN [how |-> "parsed", value |-> Obj(<< <<"is_legal", "false">> >>)]
    ELSE [how |-> "parsed", value |-> json_loads(r.content)]

\* second half of classify_online: json.loads of the retry's content, unguarded
classify_retry_result(r) ==
    IF attempt_failed(r)
    THEN [how |-> "raised", value |-> JsonError]
    ELSE [how |-> "parsed", value |-> json_loads(r.content)]

\* (variant) the inner try/except is missing: a second decode failure raises
summarise_retry_result_strict(r) ==
    IF attempt_failed(r)
    THEN [how |-> "raised", value |-> ""]
    ELSE [how |-> "parsed", value |-> json_dumps(json_loads(r.content))]

\* second half of summarise_online: re-serialise, or hand back the raw content
summarise_retry_result(r) ==
    IF ~r.ok THEN [how |-> "raised", value |-> ""]
    ELSE IF json_loads(r.content) = JsonError
         THEN [how |-> "raw", value |-> r.content]
         ELSE [how |-> "parsed", value |-> json_dumps(json_loads(r.content))]

\* if not det["is_legal"] and not args.allow_non_legal
offline_rejects(d, allow) == ~d.is_legal /\ ~allow

\* (variant) the override flag is read inverted
online_rejects_inverted(d, allow) == ~Truthy(DictGet(d, "is_legal", "false")) /\ allow

\* if not det.get("is_legal", False) and not args.allow_non_legal
online_rejects(d, allow) == ~Truthy(DictGet(d, "is_legal", "false")) /\ ~allow

\* print(payload)
print_stdout(out, err, payload) == [out |-> Append(out, payload), err |-> err]

\* (variant) file=sys.stderr is missing: the diagnostic goes to standard output
print_stderr_to_stdout(out, err, msg) == [out |-> Append(out, msg), err |-> err]

\* print(msg, file=sys.stderr)
print_stderr(out, err, msg) == [out |-> out, err |-> Append(err, msg)]

Finish(streams, code) ==
    /\ stdout' = streams.out
    /\ stderr' = streams.err
    /\ exitStatus' = <<code>>
    /\ pc' = "done"

Continue(next) ==
    /\ pc' = next
    /\ UNCHANGED <<stdout, stderr, exitStatus>>

Init ==
    /\ prog \in {"cli", "legacy"}
    /\ pc = "start"
    /\ offline \in (IF prog = "cli" THEN BOOLEAN ELSE {FALSE})
    /\ allow_non_legal \in (IF prog = "cli" THEN BOOLEAN ELSE {FALSE})
    /\ input \in Inputs
    /\ env \in [api_key : BOOLEAN, base_url : BOOLEAN]
    /\ text = <<>>
    /\ det = NoDet
    /\ prevDet = NoDet
    /\ stdout = <<>>
    /\ stderr = <<>>
    /\ exitStatus = <<>>
    /\ requests = <<>>
    /\ calls = <<>>
    /\ ret = [classify |-> NoResult, summarise |-> NoResult]

\* cli.py read_input, and main's FileNotFoundError / Exception handlers
CliReadInput ==
    /\ prog = "cli" /\ pc = "start"
    /\ CASE input.kind = "missing" ->
              /\ Finish(print_stderr(stdout, stderr, "File not found"), EXIT_ERROR)
              /\ UNCHANGED text
         [] input.kind = "dir" ->
              /\ Finish(print_stderr(stdout, stderr, "Error: IsADirectoryError"), EXIT_ERROR)
              /\ UNCHANGED text
         [] input.kind = "tty" ->
              /\ Finish(print_stderr(stdout, stderr, "No input provided."), EXIT_NO_INPUT)
              /\ UNCHANGED text
         [] OTHER ->
              /\ text' = input.content
              /\ Continue("detect")
    /\ UNCHANGED <<prog, offline, allow_non_legal, input, env, det, prevDet,
                   requests, calls, ret>>

\* main, offline branch: detect, then reject or print the stub
CliOfflineRun ==
    /\ prog = "cli" /\ pc = "detect" /\ offline
    /\ LET d == offline_detect(text)
       IN  /\ det' = d
           /\ IF offline_rejects(d, allow_non_legal)
              THEN /\ calls' = Append(calls, "offline_detect")
                   /\ Finish(print_stdout(stdout, stderr,
                                          RejectionEnvelope(DetectionJson(d))),
                             EXIT_REJECTED)
              ELSE /\ calls' = calls \o <<"offline_detect", "summarise_offline">>
                   /\ Finish(print_stdout(stdout, stderr, summarise_offline(text)),
                             EXIT_SUCCESS)
    /\ UNCHANGED <<prog, offline, allow_non_legal, input, env, text, prevDet,
                   requests, ret>>

\* main, online branch: build the client (OpenAI() needs a key unless a base
\* URL supplies the placeholder)
CliMakeClient ==
    /\ prog = "cli" /\ pc = "detect" /\ ~offline
    /\ IF ~env.base_url /\ ~env.api_key
       THEN Finish(print_stderr(stdout, stderr, "Error: api_key"), EXIT_ERROR)
       ELSE Continue("classify")
    /\ UNCHANGED <<prog, offline, allow_non_legal, input, env, text, det, prevDet,
                   requests, calls, ret>>

\* classify_online, try block
ClassifyFirst ==
    /\ prog = "cli" /\ pc = "classify"
    /\ \E r \in ClassifyReplies :
          /\ requests' = Append(requests, Issue(first_request("classify"), r))
          /\ IF attempt_failed(r)
             THEN /\ UNCHANGED <<det, ret>>
                  /\ Continue("classify_retry")
             ELSE /\ det' = json_loads(r.content)
                  /\ ret' = [ret EXCEPT !.classify = [how |-> "parsed", value |-> ""]]
                  /\ Continue("decide")
    /\ calls' = Append(calls, "classify_online")
    /\ UNCHANGED <<prog, offline, allow_non_legal, input, env, text, prevDet>>

\* classify_online, except block; what it raises reaches main's handler
ClassifyRetry ==
    /\ prog = "cli" /\ pc = "classify_retry"
    /\ \E r \in ClassifyReplies :
          LET res == classify_retry_result(r)
          IN  /\ requests' = Append(requests, Issue(retry_request("classify"), r))
              /\ ret' = [ret EXCEPT !.classify = [how |-> res.how, value |-> ""]]
              /\ IF res.how = "raised"
                 THEN /\ UNCHANGED det
                      /\ Finish(print_stderr(stdout, stderr, "Error: classify"),
                                EXIT_ERROR)
                 ELSE /\ det' = res.value
                      /\ Continue("decide")
    /\ UNCHANGED <<prog, offline, allow_non_legal, input, env, text, prevDet, calls>>

\* main, after classify_online returned: det.get on a non-dict raises
Decide ==
    /\ prog = "cli" /\ pc = "decide"
    /\ IF det.kind # "object"
       THEN Finish(print_stderr(stdout, stderr, "Error: AttributeError"), EXIT_ERROR)
       ELSE IF online_rejects(det, allow_non_legal)
            THEN Finish(print_stdout(stdout, stderr, RejectionEnvelope(det)),
                        EXIT_REJECTED)
            ELSE Continue("summarise")
    /\ UNCHANGED <<prog, offline, allow_non_legal, input, env, text, det, prevDet,
                   requests, calls, ret>>

\* summarise_online, try block
SummariseFirst ==
    /\ prog = "cli" /\ pc = "summarise"
    /\ \E r \in SummaryReplies :
          /\ requests' = Append(requests, Issue(first_request("summarise"), r))
          /\ IF attempt_failed(r)
             THEN /\ UNCHANGED ret
                  /\ Continue("summarise_retry")
             ELSE /\ ret' = [ret EXCEPT !.summarise =
                                [how |-> "parsed",
                                 value |-> json_dumps(json_loads(r.content))]]
                  /\ Continue("emit")
    /\ calls' = Append(calls, "summarise_online")
    /\ UNCHANGED <<prog, offline, allow_non_legal, input, env, text, det, prevDet>>

\* summarise_online, except block
SummariseRetry ==
    /\ prog = "cli" /\ pc = "summarise_retry"
    /\ \E r \in SummaryReplies :
          LET res == summarise_retry_result(r)
          IN  /\ requests' = Append(requests, Issue(retry_request("summarise"), r))
              /\ ret' = [ret EXCEPT !.summarise = res]
              /\ IF res.how = "raised"
                 THEN Finish(print_stderr(stdout, stderr, "Error: summarise"),
                             EXIT_ERROR)
                 ELSE Continue("emit")
    /\ UNCHANGED <<prog, offline, allow_non_legal, input, env, text, det, prevDet,
                   calls>>

\* main: print(summarise_online(...)) and fall off the end
Emit ==
    /\ prog = "cli" /\ pc = "emit"
    /\ Finish(print_stdout(stdout, stderr, ret.summarise.value), EXIT_SUCCESS)
    /\ UNCHANGED <<prog, offline, allow_non_legal, input, env, text, det, prevDet,
                   requests, calls, ret>>

\* legacy main: read_input and the empty check
LegacyReadInput ==
    /\ prog = "legacy" /\ pc = "start"
    /\ IF input.kind \in {"missing", "dir"}
       THEN /\ Finish(print_stderr(stdout, stderr, "Error reading input"),
                      LEGACY_EXIT_ERROR)
            /\ UNCHANGED text
       ELSE /\ text' = input.content
            /\ IF Strip(input.content) = <<>>
               THEN Finish(print_stderr(stdout, stderr, "Error: Input is empty."),
                           LEGACY_EXIT_ERROR)
               ELSE Continue("detect")
    /\ UNCHANGED <<prog, offline, allow_non_legal, input, env, det, prevDet,
                   requests, calls, ret>>

\* legacy main: the detector gate, then get_client
LegacyDetect ==
    /\ prog = "legacy" /\ pc = "detect"
    /\ det' = is_probably_legal(text)
    /\ calls' = Append(calls, "is_probably_legal")
    /\ IF ~is_probably_legal(text)
       THEN Finish(print_stderr(stdout, stderr, "The input does not appear to be legal"),
                   LEGACY_EXIT_NOT_LEGAL)
       ELSE IF ~env.api_key
            THEN Finish(print_stderr(stdout, stderr, "Failed to generate summary"),
                        LEGACY_EXIT_ERROR)
            ELSE Continue("legacy_summarise")
    /\ UNCHANGED <<prog, offline, allow_non_legal, input, env, text, prevDet,
                   requests, ret>>

\* legacy main: core.summarise, one request, content stripped and printed
LegacySummarise ==
    /\ prog = "legacy" /\ pc = "legacy_summarise"
    /\ \E r \in LegacyReplies :
          /\ requests' = Append(requests, Issue(legacy_request("legacy_summarise"), r))
          /\ IF ~r.ok
             THEN Finish(print_stderr(stdout, stderr, "Failed to generate summary"),
                         LEGACY_EXIT_ERROR)
             ELSE Finish(print_stdout(stdout, stderr, Strip(r.content)), EXIT_SUCCESS)
    /\ calls' = Append(calls, "summarise")
    /\ UNCHANGED <<prog, offline, allow_non_legal, input, env, text, det, prevDet, ret>>

Next ==
    \/ CliReadInput
    \/ CliOfflineRun
    \/ CliMakeClient
    \/ ClassifyFirst
    \/ ClassifyRetry
    \/ Decide
    \/ SummariseFirst
    \/ SummariseRetry
    \/ Emit
    \/ LegacyReadInput
    \/ LegacyDetect
    \/ LegacySummarise

Spec == Init /\ [][Next]_vars

-----------------------------------------------------------------------------
(* Properties of a run.                                                    *)

Called(f) == \E i \in 1..Len(calls) : calls[i] = f

RequestsOf(call) == SelectSeq(requests, LAMBDA q : q.call = call)

\* a reply that arrived but whose content is not JSON
NotJson(r) == r.ok /\ json_loads(r.content) = JsonError

IsJson(r) == r.ok /\ json_loads(r.content) # JsonError

\* the detector of the structured CLI answered is_legal = false
CliDetectorSaysNotLegal ==
    /\ prog = "cli"
    /\ IF offline
       THEN Called("offline_detect") /\ det.is_legal = FALSE
       ELSE /\ ret.classify.how = "parsed"
            /\ det.kind = "object"
            /\ HasKey(det, "is_legal")
            /\ DictGet(det, "is_legal", "false") = "false"

\* the detector result of this run says is_legal = true, the boolean
DetectorSaysLegal ==
    CASE prog = "legacy" -> Called("is_probably_legal") /\ det = TRUE
      [] prog = "cli" /\ offline -> Called("offline_detect") /\ det.is_legal = TRUE
      [] OTHER -> /\ ret.classify.how = "parsed"
                  /\ det.kind = "object"
                  /\ DictGet(det, "is_legal", "false") = "true"

\* a summary has been produced in this run
SummaryProduced ==
    \/ Called("summarise_offline")
    \/ ret.summarise.how \in {"parsed", "raw"}
    \/ prog = "legacy" /\ stdout # <<>>

\* C1: in the structured CLI, in either mode, a detector result with
\* is_legal = false and no override ends the run with exit status 3, the
\* rejection envelope carrying the detector's full result as the only output,
\* and summarise_online never called.
C1_RejectionPath ==
    (CliDetectorSaysNotLegal /\ ~allow_non_legal) =>
        /\ pc \in {"decide", "done"}
        /\ ~Called("summarise_online")
        /\ RequestsOf("summarise") = <<>>
        /\ pc = "decide" => stdout = <<>> /\ exitStatus = <<>>
        /\ pc = "done" =>
              /\ exitStatus = <<EXIT_REJECTED>>
              /\ stdout = <<"{\"error\": \"not_legal\", \"detector\": "
                             \o json_dumps(IF offline THEN DetectionJson(det) ELSE det)
                             \o "}">>

C1_Witness ==
    /\ CliDetectorSaysNotLegal /\ ~allow_non_legal /\ ~offline
    /\ pc = "done" /\ exitStatus = <<EXIT_REJECTED>>
    /\ Len(RequestsOf("classify")) = 2

\* C2 (as claimed): a summary is produced only if the detection result says
\* is_legal = true, the boolean, or the caller set the override flag.
C2_SummaryOnlyIfLegal ==
    SummaryProduced => (DetectorSaysLegal \/ allow_non_legal)

\* C3: a model-invoker call issues a second request exactly when its first,
\* JSON-constrained attempt failed; the second request drops the constraint
\* and carries the extra instruction; after it the call returns parsed JSON,
\* returns raw text (summarise only) or raises; there is never a third.
C3_SingleRetry ==
    \A c \in {"classify", "summarise"} :
        LET R == RequestsOf(c)
        IN  /\ Len(R) <= 2
            /\ Len(R) >= 1 => R[1].json_mode /\ ~R[1].extra
            /\ Len(R) = 2 =>
                  /\ ~IsJson(R[1].reply)
                  /\ ~R[2].json_mode /\ R[2].extra
                  /\ ret[c].how \in {"parsed", "raised"} \cup
                                    (IF c = "summarise" THEN {"raw"} ELSE {})
                  /\ R[2].reply.ok /\ c = "summarise" => ret[c].how \in {"parsed", "raw"}
                  /\ IsJson(R[2].reply) => ret[c].how = "parsed"
                  /\ NotJson(R[2].reply) /\ c = "classify" => ret[c].how = "raised"
            /\ Len(R) = 1 /\ IsJson(R[1].reply) => ret[c].how = "parsed"
            /\ Len(R) = 1 /\ ~IsJson(R[1].reply) =>
                  /\ ret[c].how = "none"
                  /\ pc = c \o "_retry"
            /\ Len(R) = 0 => ret[c].how = "none"

C3_Witness ==
    /\ Len(RequestsOf("classify")) = 2
    /\ Len(RequestsOf("summarise")) = 2
    /\ ret.summarise.how = "raw"
    /\ pc = "done"

\* C4 (as claimed): a run whose acquired input is empty or whitespace-only
\* ends with exit status 2, without running the detector and with nothing on
\* standard output.
C4_EmptyInputIsExit2 ==
    (/\ pc = "done"
     /\ input.kind \in {"file", "stdin"}
     /\ Strip(input.content) = <<>>) =>
        /\ exitStatus = <<EXIT_NO_INPUT>>
        /\ calls = <<>>
        /\ stdout = <<>>

\* C5: online, a classification reply that is not JSON on the first attempt
\* and again on the retry is fatal: diagnostic on the error stream, exit
\* status 1, no summarisation, no envelope, whatever the override flag.
C5_ClassifyDecodeFatal ==
    LET R == RequestsOf("classify")
    IN  (Len(R) = 2 /\ NotJson(R[1].reply) /\ NotJson(R[2].reply)) =>
            /\ pc = "done"
            /\ ret.classify.how = "raised"
            /\ exitStatus = <<EXIT_ERROR>>
            /\ stderr # <<>>
            /\ stdout = <<>>
            /\ ~Called("summarise_online")
            /\ RequestsOf("summarise") = <<>>

C5_Witness ==
    LET R == RequestsOf("classify")
    IN  /\ Len(R) = 2 /\ NotJson(R[1].reply) /\ NotJson(R[2].reply)
        /\ allow_non_legal
        /\ exitStatus = <<EXIT_ERROR>>

\* C6: summarise_online does not raise when the text is not JSON on both
\* attempts: it returns the retry's raw text unchanged, which the run prints
\* before exiting 0; when an attempt's text is JSON the returned value is the
\* re-serialisation of the parsed value.
C6_SummariseDegrades ==
    LET R == RequestsOf("summarise")
    IN  /\ (Len(R) = 2 /\ NotJson(R[1].reply) /\ NotJson(R[2].reply)) =>
              /\ ret.summarise = [how |-> "raw", value |-> R[2].reply.content]
              /\ pc \in {"emit", "done"}
              /\ pc = "emit" => stdout = <<>> /\ exitStatus = <<>>
              /\ pc = "done" =>
                    /\ stdout = <<R[2].reply.content>>
                    /\ exitStatus = <<EXIT_SUCCESS>>
        /\ \A i \in 1..Len(R) :
              IsJson(R[i].reply) =>
                  /\ i = Len(R)
                  /\ ret.summarise =
                        [how |-> "parsed", value |-> json_dumps(json_loads(R[i].reply.content))]
                  /\ R[i].reply.content = "{\"title\":\"NDA\",\"parties\":[\"A\",\"B\"]}" =>
                        ret.summarise.value = "{\"title\": \"NDA\", \"parties\": [\"A\", \"B\"]}"
                  /\ pc = "done" =>
                        stdout = <<ret.summarise.value>> /\ exitStatus = <<EXIT_SUCCESS>>

C6_Witness ==
    LET R == RequestsOf("summarise")
    IN  /\ Len(R) = 2 /\ NotJson(R[1].reply) /\ NotJson(R[2].reply)
        /\ R[2].reply.content # ""
        /\ pc = "done" /\ exitStatus = <<EXIT_SUCCESS>>

\* C9: the offline stub ignores its input: every offline run that reaches
\* summarisation prints the same bytes, a JSON object with the ten fixed
\* SummaryReport keys, whatever the document was.
C9_StubIsFixed ==
    Called("summarise_offline") =>
        /\ stdout = <<summarise_offline(<<>>)>>
        /\ \A t \in Documents : summarise_offline(t) = stdout[1]
        /\ stdout[1] = json_dumps(Obj(StubData))
        /\ \A k \in 1..Len(SUMMARY_KEYS) : HasKey(Obj(StubData), SUMMARY_KEYS[k])
        /\ Len(StubData) = Len(SUMMARY_KEYS)

C9_Witness ==
    /\ Called("summarise_offline")
    /\ text = DocContract
    /\ ~allow_non_legal
    /\ exitStatus = <<EXIT_SUCCESS>>

\* C10: standard output is written at most once: exactly once when the run
\* ends in success (0) or rejection (3), never when it ends in an error
\* status, and never before the run ends.
C10_SingleEmit ==
    /\ Len(stdout) <= 1
    /\ pc # "done" => stdout = <<>> /\ exitStatus = <<>>
    /\ pc = "done" =>
          /\ Len(exitStatus) = 1
          /\ exitStatus[1] \in {EXIT_SUCCESS, EXIT_REJECTED} <=> Len(stdout) = 1
          /\ exitStatus[1] \in {EXIT_ERROR, EXIT_NO_INPUT} <=> stdout = <<>>
          /\ stdout = <<>> => stderr # <<>>

C10_Witness ==
    /\ pc = "done"
    /\ exitStatus = <<EXIT_ERROR>>
    /\ RequestsOf("summarise") # <<>>
    /\ stdout = <<>>

-----------------------------------------------------------------------------
(* The legacy detector on its own: is_probably_legal applied to texts made  *)
(* of padding, keyword-bearing words, gaps and filler.                      *)

MaxPad == 1

MaxGap == 2

MaxFill == 40

SampleWords ==
    {<<"A", "g", "r", "e", "e", "m", "e", "n", "t">>,
     <<"c", "o", "n", "t", "r", "a", "c", "t">>,
     <<"t", "e", "r", "m", "i", "n", "a", "t", "i", "o", "n">>}

RECURSIVE JoinWords(_, _)
\* the words of W in a fixed order, each followed by a gap of g spaces
JoinWords(W, g) ==
    IF W = {} THEN <<>>
    ELSE LET w == CHOOSE x \in W : \A y \in W : Len(x) <= Len(y)
         IN  w \o Rep(" ", g) \o JoinWords(W \ {w}, g)

LegacyTexts ==
    {Rep("\t", lead) \o JoinWords(W, g) \o Rep("x", n) \o Rep(" ", trail) :
        lead \in 0..MaxPad, trail \in 0..MaxPad, g \in 1..MaxGap,
        n \in 0..MaxFill, W \in SUBSET SampleWords}

InitLegacyDetector ==
    /\ prog = "core"
    /\ pc = "fn_start"
    /\ text \in LegacyTexts
    /\ offline = FALSE
    /\ allow_non_legal = FALSE
    /\ input = [kind |-> "none", content |-> <<>>]
    /\ env = [api_key |-> FALSE, base_url |-> FALSE]
    /\ det = NoDet
    /\ prevDet = NoDet
    /\ stdout = <<>>
    /\ stderr = <<>>
    /\ exitStatus = <<>>
    /\ requests = <<>>
    /\ calls = <<>>
    /\ ret = [classify |-> NoResult, summarise |-> NoResult]

ApplyLegacyDetector ==
    /\ prog = "core" /\ pc = "fn_start"
    /\ det' = is_probably_legal(text)
    /\ calls' = Append(calls, "is_probably_legal")
    /\ pc' = "fn_done"
    /\ UNCHANGED <<prog, offline, allow_non_legal, input, env, text, prevDet,
                   stdout, stderr, exitStatus, requests, ret>>

SpecLegacyDetector == InitLegacyDetector /\ [][ApplyLegacyDetector]_vars

\* length of s between its first and its last non-whitespace character
StrippedLength(s) ==
    LET keep == {i \in 1..Len(s) : ~IsSpace(s[i])}
    IN  IF keep = {} THEN 0
        ELSE (CHOOSE i \in keep : \A j \in keep : i >= j)
             - (CHOOSE i \in keep : \A j \in keep : i <= j) + 1

\* C7 (as claimed): a text with fewer than 50 non-whitespace characters,
\* whitespace anywhere not counting, is never classified legal.
C7_FewNonSpaceIsNotLegal ==
    (pc = "fn_done" /\ NonSpaceCount(text) < MIN_LEGACY_LENGTH) => det = FALSE

\* C7 (amended): a text that is shorter than 50 characters once leading and
\* trailing whitespace is removed (interior whitespace counting toward the
\* 50) is never classified legal, however many keywords it holds.
C7_ShortStrippedIsNotLegal ==
    (pc = "fn_done" /\ StrippedLength(text) < MIN_LEGACY_LENGTH) => det = FALSE

C7_Witness ==
    /\ pc = "fn_done"
    /\ StrippedLength(text) = MIN_LEGACY_LENGTH - 1
    /\ Len(text) >= MIN_LEGACY_LENGTH
    /\ KeywordScore(Lower(text)) >= MIN_KEYWORD_SCORE
    /\ det = FALSE

-----------------------------------------------------------------------------
(* The weighted detector on its own: offline_detect applied to a text, and  *)
(* again after a legal-signal term is inserted into a text that had none.   *)

MaxExtraWords == 2

DetectBases ==
    {<<>>,
     <<"h", "i">>,
     <<"L", "L", "C">>,
     <<"x", "L", "t", "d">>,
     <<"a", " ", "L", "t", "d">>,
     <<"I", "n", "c", ".">>,
     <<"I", "n", "c", ".", "a">>,
     <<"P", "L", "C", " ", "l", "l", "c">>,
     <<"s", "e", "c", "t", "i", "o", "n", " ", "x">>,
     <<"S", "e", "c", "t", "i", "o", "n", " ", "2">>,
     <<"C", "l", "a", "u", "s", "e">>}

\* n filler words, each followed by one space
RepeatWord(n) == [i \in 1..(2 * n) |-> IF i % 2 = 1 THEN "w" ELSE " "]

FillerCounts == {0} \cup {WORD_THRESHOLD - 2 + k : k \in 0..MaxExtraWords}

DetectTexts == {RepeatWord(n) \o b : n \in FillerCounts, b \in DetectBases}

\* every alternative of LEGAL_HINTS, "section \d" by an instance
HintTerms ==
    {LEGAL_HINT_LITERALS[k] : k \in 1..Len(LEGAL_HINT_LITERALS)}
        \cup {SECTION_PREFIX \o <<"7">>}

Insert(t, p, term) == SubSeq(t, 1, p) \o term \o SubSeq(t, p + 1, Len(t))

InsertWindow == 5

\* where a term is inserted: at the front, and anywhere in the last characters
InsertPoints(t) == {0} \cup {p \in 0..Len(t) : p >= Len(t) - InsertWindow}

InitOfflineDetector ==
    /\ prog = "detector"
    /\ pc = "fn_start"
    /\ text \in DetectTexts
    /\ offline = TRUE
    /\ allow_non_legal = FALSE
    /\ input = [kind |-> "none", content |-> <<>>]
    /\ env = [api_key |-> FALSE, base_url |-> FALSE]
    /\ det = NoDet
    /\ prevDet = NoDet
    /\ stdout = <<>>
    /\ stderr = <<>>
    /\ exitStatus = <<>>
    /\ requests = <<>>
    /\ calls = <<>>
    /\ ret = [classify |-> NoResult, summarise |-> NoResult]

ApplyOfflineDetect ==
    /\ prog = "detector" /\ pc = "fn_start"
    /\ det' = offline_detect(text)
    /\ calls' = Append(calls, "offline_detect")
    /\ pc' = "fn_detected"
    /\ UNCHANGED <<prog, offline, allow_non_legal, input, env, text, prevDet,
                   stdout, stderr, exitStatus, requests, ret>>

\* a legal-signal term is added to a text that matched none; detect again
InsertTermAndDetect ==
    /\ prog = "detector" /\ pc = "fn_detected"
    /\ ~HintSearch(text)
    /\ \E p \in InsertPoints(text), term \in HintTerms :
          /\ text' = Insert(text, p, term)
          /\ det' = offline_detect(Insert(text, p, term))
    /\ prevDet' = det
    /\ calls' = Append(calls, "offline_detect")
    /\ pc' = "fn_inserted"
    /\ UNCHANGED <<prog, offline, allow_non_legal, input, env,
                   stdout, stderr, exitStatus, requests, ret>>

NextOfflineDetector == ApplyOfflineDetect \/ InsertTermAndDetect

SpecOfflineDetector == InitOfflineDetector /\ [][NextOfflineDetector]_vars

\* C8: the confidence offline_detect reports lies in [0, 1], and inserting a
\* legal-signal term into a text that matched none never lowers it.
C8_ScoreBoundedMonotonic ==
    /\ pc \in {"fn_detected", "fn_inserted"} =>
          /\ det.confidence >= 0 /\ det.confidence <= SCORE_CAP
          /\ det.is_legal <=> det.confidence >= LEGAL_THRESHOLD
    /\ pc = "fn_inserted" =>
          /\ prevDet.confidence >= 0 /\ prevDet.confidence <= SCORE_CAP
          /\ det.confidence >= prevDet.confidence

\* inserting the term split a company suffix, yet the score went up
C8_Witness ==
    /\ pc = "fn_inserted"
    /\ prevDet.confidence = LENGTH_WEIGHT + COMPANY_WEIGHT
    /\ det.confidence = HINT_WEIGHT + LENGTH_WEIGHT

====
